---- MODULE Spec2Model ----
(***************************************************************************)
(* Model of the alert pipeline of API-Threat-Detection-Model:              *)
(*   - the WebSocket alert hub (src/src/alert_ws_server.py): the shared    *)
(*     list `clients`, the per-connection handler ws_alerts and the        *)
(*     coroutine broadcast, interleaved at their await points;             *)
(*   - the lazily loaded model bundle (src/src/infer_clean.py load_model); *)
(*   - the log normaliser parse_log_item (src/src/alert_parser.py).        *)
(***************************************************************************)
EXTENDS Integers, Sequences, FiniteSets, TLC

\* ---------------------------------------------------------------- bounds
\* connection handles (WebSocket objects) that may ever exist
NConns == 2
\* events the hub receives in a run, over all connections
MaxEvents == 2

\* threads that call load_model, and calls each of them makes
NCallers == 2
MaxCalls == 2

\* fields a raw event holds
MaxKeys == 2

\* pieces a text is put together from, and times it is percent-encoded
MaxChunks == 3
MaxEncs == 3

\* largest value of a pattern count among the features of an event
MaxCount == 2

\* lines of a log file, and elements of a JSON array in it
MaxLines == 3
MaxElems == 3

\* runs of equal lines in the file the dashboard reads
MaxRuns == 3

Conns == 1..NConns
Callers == 1..NCallers
None == 0

VARIABLES
    clients,   \* alert_ws_server.clients: the list of registered WebSockets
    pc,        \* per connection: where its handler ws_alerts stands
    link,      \* per connection: state of the peer ("up", "down", "stall")
    idx,       \* per connection: items its broadcast's list iterator consumed
    tgt,       \* per connection: the ws whose send_json its broadcast awaits
    dead,      \* per connection: dead_clients of its broadcast
    err,       \* per connection: exception that ended the handler
    sent,      \* per connection: events received from it so far
    done,      \* per connection: broadcasts that returned to its handler
    inbox,     \* per connection: alerts delivered to it, <<sender, event>>
    tried,     \* per connection: send attempts per target in its broadcast
    stayed,    \* per connection: registered since its broadcast started
    pruned,    \* connections a broadcast has taken off the list
    bundle,    \* infer_clean.MODEL_BUNDLE: None or the loaded object
    loads,     \* joblib.load calls made so far; load n returns object n
    lpc,       \* per caller: where its load_model call stands
    loaded,    \* per caller: the object its joblib.load returned
    got,       \* per caller: what its last load_model call returned
    calls,     \* per caller: load_model calls it has finished
    item,      \* the raw event handed to parse_log_item: <<key, value>> pairs
    parsed,    \* what parse_log_item made of it
    text,      \* the text handed to normalize_for_tfidf
    nchunks,   \* pieces the text was put together from
    encs,      \* times the producer percent-encoded the text
    norm,      \* normalize_for_tfidf of the text, and of that result
    label,     \* attack_label handed to compute_severity
    meta,      \* the features of meta that compute_severity reads
    severity,  \* what compute_severity returned, NoScore before the call
    level,     \* what severity_level returned
    file,      \* the log file at the path given to main
    logs,      \* main's logs, what load_logs returned
    reported,  \* load_logs printed its "cannot read" message
    mpc,       \* where main stands
    appfile,   \* the file at APP_FILE: runs of equal lines, <<count, line>>
    statsOut,  \* what GET /api/stats answered
    eventsOut  \* what GET /api/events answered, and the limit it was given

hubVars == <<clients, pc, link, idx, tgt, dead, err, sent, done, inbox, tried, stayed, pruned>>
modelVars == <<bundle, loads, lpc, loaded, got, calls>>
parseVars == <<item, parsed>>

textVars == <<text, nchunks, encs, norm>>

sevVars == <<label, meta, severity, level>>

batchVars == <<file, logs, reported, mpc>>

dashVars == <<appfile, statsOut, eventsOut>>

vars == <<hubVars, modelVars, parseVars, textVars, sevVars, batchVars, dashVars>>

\* what the steps of one component leave alone
offHub == <<modelVars, parseVars, textVars, sevVars, batchVars, dashVars>>
offModel == <<hubVars, parseVars, textVars, sevVars, batchVars, dashVars>>
offParse == <<hubVars, modelVars, textVars, sevVars, batchVars, dashVars>>
offText == <<hubVars, modelVars, parseVars, sevVars, batchVars, dashVars>>
offSev == <<hubVars, modelVars, parseVars, textVars, batchVars, dashVars>>
offBatch == <<hubVars, parseVars, textVars, sevVars, dashVars>>
offDash == <<hubVars, modelVars, parseVars, textVars, sevVars, batchVars>>

\* ------------------------------------------------------------- helpers
Range(s) == {s[i] : i \in 1..Len(s)}

\* index of the first occurrence of x in list s, 0 when absent
RECURSIVE IndexOf(_, _, _)
IndexOf(s, x, i) ==
    IF i > Len(s) THEN 0
    ELSE IF s[i] = x THEN i
    ELSE IndexOf(s, x, i + 1)

\* list.remove(x) on a list that holds x: drops the first occurrence
ListRemove(s, x) ==
    LET k == IndexOf(s, x, 1)
    IN  [i \in 1..(Len(s) - 1) |-> IF i < k THEN s[i] ELSE s[i + 1]]

\* mutant: the dead sockets are never taken off the list
RemoveDeadKeepsAll(cl, d) == [cl |-> cl, ok |-> TRUE]

\* `for ws in dead_clients: clients.remove(ws)`; list.remove raises
\* ValueError on an absent element and the loop stops there
RECURSIVE RemoveDead(_, _)
RemoveDead(cl, d) ==
    IF d = <<>> THEN [cl |-> cl, ok |-> TRUE]
    ELSE IF Head(d) \notin Range(cl) THEN [cl |-> cl, ok |-> FALSE]
    ELSE RemoveDead(ListRemove(cl, Head(d)), Tail(d))

NoTries == [s \in Conns |-> 0]

RECURSIVE SumUpTo(_, _)
SumUpTo(f, n) == IF n = 0 THEN 0 ELSE f[n] + SumUpTo(f, n - 1)

\* events received so far over all connections
TotalSent == SumUpTo(sent, NConns)

\* --------------------------------------------------------------- Init
HubInit ==
    /\ clients = <<>>
    /\ pc = [c \in Conns |-> "idle"]
    /\ link = [c \in Conns |-> "up"]
    /\ idx = [c \in Conns |-> 0]
    /\ tgt = [c \in Conns |-> None]
    /\ dead = [c \in Conns |-> <<>>]
    /\ err = [c \in Conns |-> "none"]
    /\ sent = [c \in Conns |-> 0]
    /\ done = [c \in Conns |-> 0]
    /\ inbox = [c \in Conns |-> <<>>]
    /\ tried = [c \in Conns |-> NoTries]
    /\ stayed = [c \in Conns |-> {}]
    /\ pruned = {}

ModelInit ==
    /\ bundle = None
    /\ loads = 0
    /\ lpc = [t \in Callers |-> "idle"]
    /\ loaded = [t \in Callers |-> None]
    /\ got = [t \in Callers |-> None]
    /\ calls = [t \in Callers |-> 0]

ParseInit ==
    /\ item = <<>>
    /\ parsed = [st |-> "none"]

TextInit ==
    /\ text = ""
    /\ nchunks = 0
    /\ encs = 0
    /\ norm = [st |-> "none"]

NoScore == -1

\* the features compute_severity reads, none of them firing
ZeroMeta ==
    [entropy |-> 0, base64_chunk_count |-> 0, shell_pattern_count |-> 0,
     path_traversal_count |-> 0, xss_event_count |-> 0, cmd_special_count |-> 0,
     sql_comment_count |-> 0]

SevInit ==
    /\ label = "Benign"
    /\ meta = ZeroMeta
    /\ severity = NoScore
    /\ level = "none"

\* an empty file exists at the path; main has not read it yet
BatchInit ==
    /\ file = [exists |-> TRUE, lines |-> <<>>]
    /\ logs = <<>>
    /\ reported = FALSE
    /\ mpc = "start"

\* an empty result file exists; the dashboard has not been asked yet
DashInit ==
    /\ appfile = [exists |-> TRUE, runs |-> <<>>]
    /\ statsOut = [st |-> "none"]
    /\ eventsOut = [st |-> "none"]

Init ==
    /\ HubInit /\ ModelInit /\ ParseInit /\ TextInit /\ SevInit /\ BatchInit
    /\ DashInit

\* registered-since sets of the broadcasts in flight lose what left the list
StayedAfter(cl) ==
    [d \in Conns |-> IF pc[d] = "send" THEN stayed[d] \cap Range(cl) ELSE stayed[d]]

\* ------------------------------------------------------------ actions
\* ws_alerts: accept the socket and register it
Connect(c) ==
    /\ pc[c] = "idle"
    /\ clients' = Append(clients, c)
    /\ pc' = [pc EXCEPT ![c] = "recv"]
    /\ UNCHANGED <<link, idx, tgt, dead, err, sent, done, inbox, tried, stayed, pruned>>
    /\ UNCHANGED offHub

\* ws_alerts/broadcast: the alert of the received event is built and
\* broadcast runs up to its first awaited send_json
StartPublish(c) ==
    /\ sent' = [sent EXCEPT ![c] = @ + 1]
    /\ dead' = [dead EXCEPT ![c] = <<>>]
    /\ tried' = [tried EXCEPT ![c] = NoTries]
    /\ stayed' = [stayed EXCEPT ![c] = Range(clients)]
    /\ IF Len(clients) = 0
       THEN /\ done' = [done EXCEPT ![c] = @ + 1]
            /\ idx' = [idx EXCEPT ![c] = 0]
            /\ tgt' = [tgt EXCEPT ![c] = None]
            /\ pc' = [pc EXCEPT ![c] = "recv"]
       ELSE /\ pc' = [pc EXCEPT ![c] = "send"]
            /\ idx' = [idx EXCEPT ![c] = 1]
            /\ tgt' = [tgt EXCEPT ![c] = clients[1]]
            /\ UNCHANGED done
    /\ UNCHANGED <<clients, link, err, inbox, pruned>>
    /\ UNCHANGED offHub

\* mutant: the handler takes the next event without awaiting broadcast
ReceiveEarly(c) ==
    /\ pc[c] \in {"recv", "send"}
    /\ TotalSent < MaxEvents
    /\ StartPublish(c)

\* ws_alerts: receive_json returns an event; the handler is back at
\* receive_json only after `await broadcast(alert)` has returned
Receive(c) ==
    /\ pc[c] = "recv"
    /\ TotalSent < MaxEvents
    /\ StartPublish(c)

\* broadcast, lines 68-71: how the awaited send_json to tgt[c] ends
SendOk(c) == link[tgt[c]] = "up"
DeadAfter(c) == IF SendOk(c) THEN dead[c] ELSE Append(dead[c], tgt[c])
TriedAfter(c) == [tried[c] EXCEPT ![tgt[c]] = @ + 1]

\* broadcast: the awaited send_json ends (delivered, or raised and the ws is
\* recorded dead); the list iterator moves on over the live list; after the
\* last item the dead sockets are removed and broadcast returns, its locals
\* gone
SendDone(c) ==
    /\ pc[c] = "send"
    /\ link[tgt[c]] # "stall"
    /\ inbox' = [inbox EXCEPT ![tgt[c]] = IF SendOk(c) THEN Append(@, <<c, sent[c]>>) ELSE @]
    /\ IF idx[c] < Len(clients)
       THEN /\ idx' = [idx EXCEPT ![c] = @ + 1]
            /\ tgt' = [tgt EXCEPT ![c] = clients[idx[c] + 1]]
            /\ dead' = [dead EXCEPT ![c] = DeadAfter(c)]
            /\ tried' = [tried EXCEPT ![c] = TriedAfter(c)]
            /\ UNCHANGED <<clients, pc, link, err, done, stayed, pruned>>
       ELSE LET r == RemoveDead(clients, DeadAfter(c))
            IN  /\ clients' = r.cl
                /\ pruned' = pruned \cup (Range(clients) \ Range(r.cl))
                /\ idx' = [idx EXCEPT ![c] = 0]
                /\ tgt' = [tgt EXCEPT ![c] = None]
                /\ dead' = [dead EXCEPT ![c] = <<>>]
                /\ tried' = [tried EXCEPT ![c] = NoTries]
                /\ stayed' = [StayedAfter(r.cl) EXCEPT ![c] = {}]
                /\ IF r.ok
                   THEN /\ pc' = [pc EXCEPT ![c] = "recv"]
                        /\ done' = [done EXCEPT ![c] = @ + 1]
                        /\ UNCHANGED <<link, err>>
                   ELSE /\ pc' = [pc EXCEPT ![c] = "crashed"]
                        /\ err' = [err EXCEPT ![c] = "ValueError"]
                        /\ link' = [link EXCEPT ![c] = "down"]
                        /\ UNCHANGED done
    /\ UNCHANGED sent
    /\ UNCHANGED offHub

\* mutant: the disconnect path removes without the membership test
DisconnectUnguarded(c) ==
    /\ pc[c] = "recv"
    /\ link[c] = "down"
    /\ IF c \in Range(clients)
       THEN /\ clients' = ListRemove(clients, c)
            /\ pc' = [pc EXCEPT ![c] = "closed"]
            /\ UNCHANGED err
       ELSE /\ pc' = [pc EXCEPT ![c] = "crashed"]
            /\ err' = [err EXCEPT ![c] = "ValueError"]
            /\ UNCHANGED clients
    /\ stayed' = StayedAfter(clients')
    /\ UNCHANGED <<link, idx, tgt, dead, sent, done, inbox, tried, pruned>>
    /\ UNCHANGED offHub

\* ws_alerts: receive_json raises WebSocketDisconnect
Disconnect(c) ==
    /\ pc[c] = "recv"
    /\ link[c] = "down"
    /\ clients' = IF c \in Range(clients) THEN ListRemove(clients, c) ELSE clients
    /\ pc' = [pc EXCEPT ![c] = "closed"]
    /\ stayed' = StayedAfter(clients')
    /\ UNCHANGED <<link, idx, tgt, dead, err, sent, done, inbox, tried, pruned>>
    /\ UNCHANGED offHub

\* ws_alerts: the received message makes the pipeline raise (not a mapping,
\* parse_log_item or predict fails); nothing catches it
ReceiveBad(c) ==
    /\ pc[c] = "recv"
    /\ link[c] = "up"
    /\ TotalSent < MaxEvents
    /\ pc' = [pc EXCEPT ![c] = "crashed"]
    /\ err' = [err EXCEPT ![c] = "Exception"]
    /\ link' = [link EXCEPT ![c] = "down"]
    /\ UNCHANGED <<clients, idx, tgt, dead, sent, done, inbox, tried, stayed, pruned>>
    /\ UNCHANGED offHub

\* the peer of a connection closes it
PeerClose(c) ==
    /\ pc[c] \in {"recv", "send"}
    /\ link[c] \in {"up", "stall"}
    /\ link' = [link EXCEPT ![c] = "down"]
    /\ UNCHANGED <<clients, pc, idx, tgt, dead, err, sent, done, inbox, tried, stayed, pruned>>
    /\ UNCHANGED offHub

\* the peer of a connection stops reading: sends to it neither end nor fail
PeerStall(c) ==
    /\ pc[c] \in {"recv", "send"}
    /\ link[c] = "up"
    /\ link' = [link EXCEPT ![c] = "stall"]
    /\ UNCHANGED <<clients, pc, idx, tgt, dead, err, sent, done, inbox, tried, stayed, pruned>>
    /\ UNCHANGED offHub

\* A stalled peer only keeps SendDone from happening, which the handlers'
\* interleaving already allows for any length of time: Spec leaves stalls
\* out, SpecStall has them.
Next ==
    \E c \in Conns :
        \/ Connect(c)
        \/ Receive(c)
        \/ SendDone(c)
        \/ Disconnect(c)
        \/ ReceiveBad(c)
        \/ PeerClose(c)

Spec == Init /\ [][Next]_vars

StallNext ==
    \E c \in Conns :
        \/ Connect(c)
        \/ Receive(c)
        \/ SendDone(c)
        \/ Disconnect(c)
        \/ ReceiveBad(c)
        \/ PeerClose(c)
        \/ PeerStall(c)

SpecStall == Init /\ [][StallNext]_vars

\* the event loop runs every task whose awaited call has ended; what the
\* peers do (send events, close, stall) is under no fairness
FairSpec ==
    /\ SpecStall
    /\ \A c \in Conns : WF_vars(SendDone(c)) /\ WF_vars(Disconnect(c))

\* ------------------------------------------- the hub used sequentially
\* N registered subscribers, some of whose sends fail; publishes never
\* overlap and nobody joins or leaves
SeqInit ==
    /\ clients \in UNION {[1..n -> Conns] : n \in 0..NConns}
    /\ \A i, j \in 1..Len(clients) : i # j => clients[i] # clients[j]
    /\ pc = [c \in Conns |-> IF c \in Range(clients) THEN "recv" ELSE "idle"]
    /\ link \in [Conns -> {"up", "down"}]
    /\ \A c \in Conns : c \notin Range(clients) => link[c] = "up"
    /\ idx = [c \in Conns |-> 0]
    /\ tgt = [c \in Conns |-> None]
    /\ dead = [c \in Conns |-> <<>>]
    /\ err = [c \in Conns |-> "none"]
    /\ sent = [c \in Conns |-> 0]
    /\ done = [c \in Conns |-> 0]
    /\ inbox = [c \in Conns |-> <<>>]
    /\ tried = [c \in Conns |-> NoTries]
    /\ stayed = [c \in Conns |-> {}]
    /\ pruned = {}
    /\ ModelInit
    /\ ParseInit
    /\ TextInit
    /\ SevInit
    /\ BatchInit
    /\ DashInit

SeqReceive(c) ==
    /\ \A d \in Conns : pc[d] # "send"
    /\ Receive(c)

SeqNext ==
    \E c \in Conns :
        \/ SeqReceive(c)
        \/ SendDone(c)

SpecSeq == SeqInit /\ [][SeqNext]_vars

\* ------------------------------------------- load_model under threads
\* load_model: entry and the test `MODEL_BUNDLE is None`
LoadModelCheck(t) ==
    /\ lpc[t] = "idle"
    /\ calls[t] < MaxCalls
    /\ lpc' = [lpc EXCEPT ![t] = IF bundle = None THEN "load" ELSE "ret"]
    /\ UNCHANGED <<bundle, loads, loaded, got, calls>>
    /\ UNCHANGED offModel

\* load_model: joblib.load reads the artifact and returns a new object
LoadModelLoad(t) ==
    /\ lpc[t] = "load"
    /\ loads' = loads + 1
    /\ loaded' = [loaded EXCEPT ![t] = loads + 1]
    /\ lpc' = [lpc EXCEPT ![t] = "store"]
    /\ UNCHANGED <<bundle, got, calls>>
    /\ UNCHANGED offModel

\* load_model: the loaded object is assigned to MODEL_BUNDLE
LoadModelStore(t) ==
    /\ lpc[t] = "store"
    /\ bundle' = loaded[t]
    /\ lpc' = [lpc EXCEPT ![t] = "ret"]
    /\ UNCHANGED <<loads, loaded, got, calls>>
    /\ UNCHANGED offModel

\* load_model: `return MODEL_BUNDLE`
LoadModelReturn(t) ==
    /\ lpc[t] = "ret"
    /\ got' = [got EXCEPT ![t] = bundle]
    /\ calls' = [calls EXCEPT ![t] = @ + 1]
    /\ lpc' = [lpc EXCEPT ![t] = "idle"]
    /\ UNCHANGED <<bundle, loads, loaded>>
    /\ UNCHANGED offModel

ModelNext ==
    \E t \in Callers :
        \/ LoadModelCheck(t)
        \/ LoadModelLoad(t)
        \/ LoadModelStore(t)
        \/ LoadModelReturn(t)

SpecModel == Init /\ [][ModelNext]_vars

\* ------------------------------------------------------ parse_log_item
\* JSON values as json.loads builds them
JNull == [t |-> "null"]
JBool(b) == [t |-> "bool", b |-> b]
JNum(n) == [t |-> "num", n |-> n]
JBig(s) == [t |-> "big", s |-> s]
JStr(s) == [t |-> "str", s |-> s]
JList(l) == [t |-> "list", l |-> l]
JMap(m) == [t |-> "map", m |-> m]

\* Python truth value of a JSON value
Truthy(v) ==
    CASE v.t = "null" -> FALSE
      [] v.t = "bool" -> v.b
      [] v.t = "num" -> v.n # 0
      [] v.t = "big" -> TRUE
      [] v.t = "str" -> v.s # ""
      [] v.t = "list" -> v.l # <<>>
      [] v.t = "map" -> v.m # <<>>

\* `a or b or ... or z`: the first operand that is true, else the last one
RECURSIVE PyOr(_)
PyOr(ops) ==
    IF Len(ops) = 1 \/ Truthy(Head(ops)) THEN Head(ops) ELSE PyOr(Tail(ops))

\* `key in d` and d.get(key) on a dict kept as <<key, value>> pairs
DictHas(m, k) == \E i \in 1..Len(m) : m[i][1] = k
DictGet(m, k) ==
    IF DictHas(m, k)
    THEN m[CHOOSE i \in 1..Len(m) : m[i][1] = k][2]
    ELSE JNull

RECURSIVE PyRepr(_)
RECURSIVE PyReprList(_, _)
RECURSIVE PyReprDict(_, _)
\* repr() of a value, as str() of a list or dict shows its members
PyRepr(v) ==
    CASE v.t = "null" -> "None"
      [] v.t = "bool" -> IF v.b THEN "True" ELSE "False"
      [] v.t = "num" -> ToString(v.n)
      [] v.t = "big" -> v.s
      [] v.t = "str" -> "'" \o v.s \o "'"
      [] v.t = "list" -> "[" \o PyReprList(v.l, 1) \o "]"
      [] v.t = "map" -> "{" \o PyReprDict(v.m, 1) \o "}"
PyReprList(l, i) ==
    IF i > Len(l) THEN ""
    ELSE (IF i > 1 THEN ", " ELSE "") \o PyRepr(l[i]) \o PyReprList(l, i + 1)
PyReprDict(m, i) ==
    IF i > Len(m) THEN ""
    ELSE (IF i > 1 THEN ", " ELSE "") \o "'" \o m[i][1] \o "': " \o PyRepr(m[i][2])
         \o PyReprDict(m, i + 1)

\* str(value): always a string
PyStr(v) == JStr(IF v.t = "str" THEN v.s ELSE PyRepr(v))

RECURSIVE JsonDumps(_)
RECURSIVE JsonDumpsList(_, _)
RECURSIVE JsonDumpsDict(_, _)
\* json.dumps(value) with its default separators
JsonDumps(v) ==
    CASE v.t = "null" -> "null"
      [] v.t = "bool" -> IF v.b THEN "true" ELSE "false"
      [] v.t = "num" -> ToString(v.n)
      [] v.t = "big" -> v.s
      [] v.t = "str" -> "\"" \o v.s \o "\""
      [] v.t = "list" -> "[" \o JsonDumpsList(v.l, 1) \o "]"
      [] v.t = "map" -> "{" \o JsonDumpsDict(v.m, 1) \o "}"
JsonDumpsList(l, i) ==
    IF i > Len(l) THEN ""
    ELSE (IF i > 1 THEN ", " ELSE "") \o JsonDumps(l[i]) \o JsonDumpsList(l, i + 1)
JsonDumpsDict(m, i) ==
    IF i > Len(m) THEN ""
    ELSE (IF i > 1 THEN ", " ELSE "") \o "\"" \o m[i][1] \o "\": " \o JsonDumps(m[i][2])
         \o JsonDumpsDict(m, i + 1)

\* characters of the regular expression's classes \d and \w (ASCII part)
DigitChars == {"0", "1", "2", "3", "4", "5", "6", "7", "8", "9"}
WordChars ==
    DigitChars \cup {"_"} \cup
    {"a", "b", "c", "d", "e", "f", "g", "h", "i", "j", "k", "l", "m",
     "n", "o", "p", "q", "r", "s", "t", "u", "v", "w", "x", "y", "z",
     "A", "B", "C", "D", "E", "F", "G", "H", "I", "J", "K", "L", "M",
     "N", "O", "P", "Q", "R", "S", "T", "U", "V", "W", "X", "Y", "Z"}
CharAt(s, i) == SubSeq(s, i, i)

\* length of the run of digits of s that starts at i
RECURSIVE DigitRun(_, _)
DigitRun(s, i) ==
    IF i > Len(s) \/ CharAt(s, i) \notin DigitChars THEN 0
    ELSE 1 + DigitRun(s, i + 1)

\* \d{1,3}(?:\.\d{1,3}){g-1}\b matched at i: index after the match, 0 if none.
\* A group is a whole run of one to three digits: an inner group is followed
\* by "." and the last by a word boundary, so no shorter prefix of a run fits.
RECURSIVE GroupsEnd(_, _, _)
GroupsEnd(s, i, g) ==
    LET n == DigitRun(s, i)
    IN  IF n \notin 1..3 THEN 0
        ELSE IF g = 1
             THEN IF i + n > Len(s) \/ CharAt(s, i + n) \notin WordChars
                  THEN i + n ELSE 0
             ELSE IF i + n <= Len(s) /\ CharAt(s, i + n) = "."
                  THEN GroupsEnd(s, i + n + 1, g - 1) ELSE 0

\* re.search(r"\b\d{1,3}(?:\.\d{1,3}){3}\b", s): the leftmost match, "" if none
RECURSIVE SearchIPv4(_, _)
SearchIPv4(s, i) ==
    IF i > Len(s) THEN ""
    ELSE LET e == IF i = 1 \/ CharAt(s, i - 1) \notin WordChars
                  THEN GroupsEnd(s, i, 4) ELSE 0
         IN  IF e > 0 THEN SubSeq(s, i, e - 1) ELSE SearchIPv4(s, i + 1)

\* datetime.utcnow().isoformat() at the time of the call
NowIso == "2026-11-04T00:00:00"

Pad2(n) == IF n < 10 THEN "0" \o ToString(n) ELSE ToString(n)
Pad4(n) ==
    IF n < 10 THEN "000" \o ToString(n)
    ELSE IF n < 100 THEN "00" \o ToString(n)
    ELSE IF n < 1000 THEN "0" \o ToString(n)
    ELSE ToString(n)

\* datetime.utcfromtimestamp(n).isoformat() for whole seconds n >= 0:
\* the proleptic Gregorian date of day n \div 86400 after 1970-01-01
UtcIso(n) ==
    LET days == n \div 86400
        secs == n % 86400
        z == days + 719468
        era == z \div 146097
        doe == z - era * 146097
        yoe == (doe - doe \div 1460 + doe \div 36524 - doe \div 146096) \div 365
        doy == doe - (365 * yoe + yoe \div 4 - yoe \div 100)
        mp == (5 * doy + 2) \div 153
        d == doy - (153 * mp + 2) \div 5 + 1
        m == IF mp < 10 THEN mp + 3 ELSE mp - 9
        y == yoe + era * 400 + (IF m <= 2 THEN 1 ELSE 0)
    IN  Pad4(y) \o "-" \o Pad2(m) \o "-" \o Pad2(d) \o "T" \o
        Pad2(secs \div 3600) \o ":" \o Pad2((secs % 3600) \div 60) \o ":" \o Pad2(secs % 60)

\* lines 38-42: a numeric time becomes ISO text, str(time) when that raises
TimeOf(v) ==
    CASE v.t = "num" -> JStr(UtcIso(v.n))
      [] v.t = "bool" -> JStr(UtcIso(IF v.b THEN 1 ELSE 0))
      [] v.t = "big" -> PyStr(v)
      [] OTHER -> v

\* parse_log_item(item): the normalised record, or the exception it raises
ParseLogItem(it) ==
    LET time0 == PyOr(<<DictGet(it, "time"), DictGet(it, "timestamp"),
                        DictGet(it, "ts"), JStr(NowIso)>>)
        time == TimeOf(time0)
        ip0 == PyOr(<<DictGet(it, "ip"), DictGet(it, "remote_ip"),
                      DictGet(it, "client_ip"), DictGet(it, "source_ip"),
                      DictGet(it, "host"), DictGet(it, "ip_address"),
                      DictGet(it, "src_ip"), JStr("")>>)
        useHdr == ~Truthy(ip0) /\ DictHas(it, "headers")
        hdr == DictGet(it, "headers")
        ip1 == IF useHdr
               THEN PyOr(<<DictGet(hdr.m, "x-forwarded-for"),
                           DictGet(hdr.m, "x-real-ip"), JStr("")>>)
               ELSE ip0
        found == SearchIPv4(JsonDumps(JMap(it)), 1)
        ip == IF Truthy(ip1) THEN ip1
              ELSE IF found # "" THEN JStr(found) ELSE JStr("0.0.0.0")
        method == PyOr(<<DictGet(it, "method"), DictGet(it, "http_method"), JStr("GET")>>)
        url == PyOr(<<DictGet(it, "url"), DictGet(it, "path"), JStr("")>>)
        body == PyOr(<<DictGet(it, "body"), DictGet(it, "data"), JStr("")>>)
    IN  IF useHdr /\ hdr.t # "map"
        THEN [st |-> "raised", exc |-> "AttributeError"]
        ELSE [st |-> "ok",
              time |-> PyStr(time), ip |-> PyStr(ip), method |-> PyStr(method),
              url |-> PyStr(url), body |-> PyStr(body)]

\* keys parse_log_item looks up, in the order it reads them
ItemKeys ==
    <<"time", "timestamp", "ts",
      "ip", "remote_ip", "client_ip", "source_ip", "host", "ip_address", "src_ip",
      "headers", "method", "http_method", "url", "path", "body", "data">>

KeyPos(k) == CHOOSE i \in 1..Len(ItemKeys) : ItemKeys[i] = k

\* values a field may hold: every JSON type, empty and not
ItemVals ==
    {JNull, JBool(TRUE), JNum(0), JNum(86400), JBig("1e+30"),
     JStr(""), JStr("10.0.0.5"),
     JList(<<JStr("1.2.3.4")>>),
     JMap(<<>>),
     JMap(<<<<"x-real-ip", JStr("10.0.0.9")>>, <<"x-forwarded-for", JStr("10.0.0.5")>>>>),
     JMap(<<<<"x-real-ip", JStr("10.0.0.9")>>>>)}

\* the producer puts one more field into the event; the events considered
\* list their fields in the order of ItemKeys
AddField(k, v) ==
    /\ parsed.st = "none"
    /\ Len(item) < MaxKeys
    /\ \A i \in 1..Len(item) : KeyPos(item[i][1]) < KeyPos(k)
    /\ item' = Append(item, <<k, v>>)
    /\ UNCHANGED parsed
    /\ UNCHANGED offParse

\* the event is normalised
ParseItem ==
    /\ parsed.st = "none"
    /\ parsed' = ParseLogItem(item)
    /\ UNCHANGED item
    /\ UNCHANGED offParse

ParseNext ==
    \/ \E k \in Range(ItemKeys), v \in ItemVals : AddField(k, v)
    \/ ParseItem

SpecParse == Init /\ [][ParseNext]_vars

\* ------------------------------------------------- normalize_for_tfidf
\* max_decode_rounds, the default of normalize_for_tfidf
MaxDecodeRounds == 3

\* the printable ASCII characters chr(32) .. chr(95) and chr(97) .. chr(126)
AsciiLow ==
    " !\"#$%&'()*+,-./0123456789:;<=>?@ABCDEFGHIJKLMNOPQRSTUVWXYZ[\\]^_"
AsciiHigh == "abcdefghijklmnopqrstuvwxyz{|}~"

\* chr(n); the texts considered only ever name these characters
Chr(n) == IF n < 96 THEN CharAt(AsciiLow, n - 31) ELSE CharAt(AsciiHigh, n - 96)

HexDigits == "0123456789abcdefABCDEF"
IsHex(ch) == \E i \in 1..Len(HexDigits) : CharAt(HexDigits, i) = ch
HexVal(ch) ==
    LET i == CHOOSE j \in 1..Len(HexDigits) : CharAt(HexDigits, j) = ch
    IN  IF i <= 16 THEN i - 1 ELSE i - 7

\* str.replace(old, new) for a single character old
RECURSIVE ReplaceChar(_, _, _, _)
ReplaceChar(s, old, new, i) ==
    IF i > Len(s) THEN ""
    ELSE (IF CharAt(s, i) = old THEN new ELSE CharAt(s, i)) \o ReplaceChar(s, old, new, i + 1)

\* urllib.parse.unquote: every % followed by two hex digits becomes the
\* character of that code, any other % stays
RECURSIVE Unquote(_, _)
Unquote(s, i) ==
    IF i > Len(s) THEN ""
    ELSE IF /\ CharAt(s, i) = "%"
            /\ i + 2 <= Len(s)
            /\ IsHex(CharAt(s, i + 1))
            /\ IsHex(CharAt(s, i + 2))
         THEN Chr(16 * HexVal(CharAt(s, i + 1)) + HexVal(CharAt(s, i + 2)))
              \o Unquote(s, i + 3)
         ELSE CharAt(s, i) \o Unquote(s, i + 1)

\* urllib.parse.unquote_plus: "+" becomes " " first, then unquote
UnquotePlus(s) == Unquote(ReplaceChar(s, "+", " ", 1), 1)

\* lines 33-40: up to n more rounds of unquote_plus, left at the first round
\* that changes nothing; the text it ends with and the rounds it ran
RECURSIVE DecodeRounds(_, _, _)
DecodeRounds(s, n, ran) ==
    IF n = 0 THEN [s |-> s, ran |-> ran]
    ELSE LET new_s == UnquotePlus(s)
         IN  IF new_s = s THEN [s |-> s, ran |-> ran + 1]
             ELSE DecodeRounds(new_s, n - 1, ran + 1)

\* value of the decimal digits s[i..j]
RECURSIVE DecVal(_, _, _)
DecVal(s, i, j) ==
    IF j < i THEN 0
    ELSE 10 * DecVal(s, i, j - 1) +
         (CHOOSE d \in 0..9 : ToString(d) = CharAt(s, j))

\* named character references the texts considered can hold
NamedRefs == <<<<"amp", "&">>, <<"lt", "<">>, <<"gt", ">">>, <<"quot", "\"">>>>

\* html.unescape: one pass, left to right; a numeric reference &#N (with or
\* without its ";") becomes chr(N), a named one its character, any other &
\* stays
RECURSIVE HtmlUnescape(_, _)
HtmlUnescape(s, i) ==
    IF i > Len(s) THEN ""
    ELSE IF CharAt(s, i) # "&" THEN CharAt(s, i) \o HtmlUnescape(s, i + 1)
    ELSE LET n == IF i + 1 <= Len(s) /\ CharAt(s, i + 1) = "#"
                  THEN DigitRun(s, i + 2) ELSE 0
             semi(k) == IF k <= Len(s) /\ CharAt(s, k) = ";" THEN 1 ELSE 0
             named == {r \in 1..Len(NamedRefs) :
                          /\ i + Len(NamedRefs[r][1]) <= Len(s)
                          /\ SubSeq(s, i + 1, i + Len(NamedRefs[r][1])) = NamedRefs[r][1]}
         IN  IF n > 0
             THEN Chr(DecVal(s, i + 2, i + 1 + n))
                  \o HtmlUnescape(s, i + 2 + n + semi(i + 2 + n))
             ELSE IF named # {}
             THEN LET r == CHOOSE q \in named : TRUE
                      e == i + 1 + Len(NamedRefs[r][1])
                  IN  NamedRefs[r][2] \o HtmlUnescape(s, e + semi(e))
             ELSE "&" \o HtmlUnescape(s, i + 1)

Uppers == "ABCDEFGHIJKLMNOPQRSTUVWXYZ"
Lowers == "abcdefghijklmnopqrstuvwxyz"

\* str.lower()
RECURSIVE Lower(_, _)
Lower(s, i) ==
    IF i > Len(s) THEN ""
    ELSE LET ch == CharAt(s, i)
             up == {j \in 1..26 : CharAt(Uppers, j) = ch}
         IN  (IF up = {} THEN ch ELSE CharAt(Lowers, CHOOSE j \in up : TRUE))
             \o Lower(s, i + 1)

WhiteChars == {" ", "\t", "\n", "\r"}

\* lines 46-47: every run of whitespace becomes one space, then strip():
\* a space is put before a word only when something stands before it
RECURSIVE Collapse(_, _, _)
Collapse(s, i, out) ==
    IF i > Len(s) THEN out
    ELSE IF CharAt(s, i) \in WhiteChars THEN Collapse(s, i + 1, out)
    ELSE Collapse(s, i + 1,
                  out \o (IF out # "" /\ CharAt(s, i - 1) \in WhiteChars THEN " " ELSE "")
                      \o CharAt(s, i))

\* normalize_for_tfidf(text)
NormalizeForTfidf(t) ==
    Collapse(Lower(HtmlUnescape(DecodeRounds(t, MaxDecodeRounds, 0).s, 1), 1), 1, "")

\* pieces of text the producer writes
Chunks == {"%", "2", "5", "X", "+", " ", "&#37;", "&amp;"}

\* the producer writes one more piece of the text
AddChunk(ch) ==
    /\ norm.st = "none"
    /\ nchunks < MaxChunks
    /\ text' = text \o ch
    /\ nchunks' = nchunks + 1
    /\ UNCHANGED <<encs, norm>>
    /\ UNCHANGED offText

\* the producer percent-encodes the text once more: every % becomes %25
EncodeText ==
    /\ norm.st = "none"
    /\ encs < MaxEncs
    /\ text' = ReplaceChar(text, "%", "%25", 1)
    /\ encs' = encs + 1
    /\ UNCHANGED <<nchunks, norm>>
    /\ UNCHANGED offText

\* the text is normalised, and the result is normalised again
Normalize ==
    /\ norm.st = "none"
    /\ LET once == NormalizeForTfidf(text)
       IN  norm' = [st |-> "done",
                    once |-> once,
                    twice |-> NormalizeForTfidf(once),
                    ran |-> DecodeRounds(text, MaxDecodeRounds, 0).ran]
    /\ UNCHANGED <<text, nchunks, encs>>
    /\ UNCHANGED offText

TextNext ==
    \/ \E ch \in Chunks : AddChunk(ch)
    \/ EncodeText
    \/ Normalize

SpecText == Init /\ [][TextNext]_vars

\* --------------------------------------- compute_severity, severity_level
\* labels of DEFAULT_LABEL_MAP, and one a bundle's own label_map may add
Labels ==
    {"Benign", "SQL Injection", "XSS", "Command Injection",
     "Broken Authentication", "Other"}

\* entropy is a float: it is kept in thousandths, 4001 is just above 4
EntropyVals == {0, 4000, 4001}

Metas ==
    [entropy : EntropyVals, base64_chunk_count : 0..MaxCount,
     shell_pattern_count : 0..MaxCount, path_traversal_count : 0..MaxCount,
     xss_event_count : 0..MaxCount, cmd_special_count : 0..MaxCount,
     sql_comment_count : 0..MaxCount]

\* BASE.get(attack_label, 0)
BASE(attack_label) ==
    CASE attack_label = "Benign" -> 0
      [] attack_label = "SQL Injection" -> 85
      [] attack_label = "XSS" -> 50
      [] attack_label = "Command Injection" -> 95
      [] attack_label = "Broken Authentication" -> 70
      [] OTHER -> 0

Min(a, b) == IF a < b THEN a ELSE b

\* mutant: the sum is returned without the cap
ComputeSeverityNoCap(m, attack_label) ==
    BASE(attack_label)
    + (IF m.entropy > 4000 THEN 10 ELSE 0)
    + (IF m.base64_chunk_count > 0 THEN 5 ELSE 0)
    + (IF m.shell_pattern_count > 0 THEN 10 ELSE 0)
    + (IF m.path_traversal_count > 0 THEN 10 ELSE 0)
    + (IF m.xss_event_count > 0 THEN 5 ELSE 0)
    + (IF m.cmd_special_count > 0 THEN 5 ELSE 0)
    + (IF m.sql_comment_count > 0 THEN 5 ELSE 0)

\* mutant: the sum is wrapped into 0..100 instead of capped
ComputeSeverityWrap(m, attack_label) ==
    ComputeSeverityNoCap(m, attack_label) % 101

\* compute_severity(meta, attack_label)
ComputeSeverity(m, attack_label) ==
    LET s0 == BASE(attack_label)
        s1 == s0 + (IF m.entropy > 4000 THEN 10 ELSE 0)
        s2 == s1 + (IF m.base64_chunk_count > 0 THEN 5 ELSE 0)
        s3 == s2 + (IF m.shell_pattern_count > 0 THEN 10 ELSE 0)
        s4 == s3 + (IF m.path_traversal_count > 0 THEN 10 ELSE 0)
        s5 == s4 + (IF m.xss_event_count > 0 THEN 5 ELSE 0)
        s6 == s5 + (IF m.cmd_special_count > 0 THEN 5 ELSE 0)
        s7 == s6 + (IF m.sql_comment_count > 0 THEN 5 ELSE 0)
    IN  Min(s7, 100)

\* mutant: the thresholds are exclusive
SeverityLevelStrict(score) ==
    IF score > 90 THEN "CRITICAL"
    ELSE IF score > 70 THEN "HIGH"
    ELSE IF score > 40 THEN "MEDIUM"
    ELSE IF score > 10 THEN "LOW"
    ELSE "SAFE"

\* severity_level(score)
SeverityLevel(score) ==
    IF score >= 90 THEN "CRITICAL"
    ELSE IF score >= 70 THEN "HIGH"
    ELSE IF score >= 40 THEN "MEDIUM"
    ELSE IF score >= 10 THEN "LOW"
    ELSE "SAFE"

\* severity = compute_severity(meta, attack_label)
ScoreEvent ==
    /\ severity = NoScore
    /\ severity' = ComputeSeverity(meta, label)
    /\ UNCHANGED <<label, meta, level>>
    /\ UNCHANGED offSev

\* level = severity_level(severity)
LevelEvent ==
    /\ severity # NoScore
    /\ level = "none"
    /\ level' = SeverityLevel(severity)
    /\ UNCHANGED <<label, meta, severity>>
    /\ UNCHANGED offSev

\* an event of any label and any features is scored, then given its tier
SevInputs ==
    /\ HubInit /\ ModelInit /\ ParseInit /\ TextInit /\ BatchInit /\ DashInit
    /\ label \in Labels
    /\ meta \in Metas
    /\ severity = NoScore
    /\ level = "none"

SevNext ==
    \/ ScoreEvent
    \/ LevelEvent

SpecSeverity == SevInputs /\ [][SevNext]_vars

\* severity_level is handed any integer score of 0..100
Scores == 0..100

LevelInputs ==
    /\ HubInit /\ ModelInit /\ ParseInit /\ TextInit /\ BatchInit /\ DashInit
    /\ label = "Benign"
    /\ meta = ZeroMeta
    /\ severity \in Scores
    /\ level = "none"

LevelNext == LevelEvent

SpecLevel == LevelInputs /\ [][LevelNext]_vars

\* --------------------------------------------------- load_logs and main
\* parse_log_item(value) for any JSON value: item.get needs a mapping
ParseLogValue(v) ==
    IF v.t = "map" THEN ParseLogItem(v.m)
    ELSE [st |-> "raised", exc |-> "AttributeError"]

\* a line of the file: empty, the text of a JSON value, or text that is no JSON
BlankLine == [t |-> "blank"]
JsonLine(v) == [t |-> "json", v |-> v]
BadLine(s) == [t |-> "bad", s |-> s]

LineText(l) ==
    CASE l.t = "blank" -> ""
      [] l.t = "json" -> JsonDumps(l.v)
      [] l.t = "bad" -> l.s

NonBlank(lines) == SelectSeq(lines, LAMBDA l : l.t # "blank")

\* content.startswith("[") for content = f.read().strip()
StartsWithBracket(lines) ==
    /\ NonBlank(lines) # <<>>
    /\ CharAt(LineText(NonBlank(lines)[1]), 1) = "["

\* json.loads(content) returns: the content is the text of one JSON value
ContentIsJson(lines) ==
    /\ Len(NonBlank(lines)) = 1
    /\ NonBlank(lines)[1].t = "json"

\* lines 132-134: the items of the array in turn; the first one that
\* parse_log_item raises on ends the loop with what was appended so far
RECURSIVE ArrayLogs(_, _, _)
ArrayLogs(elems, i, acc) ==
    IF i > Len(elems) THEN [logs |-> acc, raised |-> FALSE]
    ELSE LET rec == ParseLogValue(elems[i])
         IN  IF rec.st = "raised" THEN [logs |-> acc, raised |-> TRUE]
             ELSE ArrayLogs(elems, i + 1, Append(acc, rec))

\* lines 137-144: the lines in turn; blank lines, lines json.loads raises on
\* and values parse_log_item raises on are passed over
RECURSIVE LineLogs(_, _, _)
LineLogs(lines, i, acc) ==
    IF i > Len(lines) THEN acc
    ELSE LET l == lines[i]
             rec == IF l.t = "json" THEN ParseLogValue(l.v)
                    ELSE [st |-> "raised", exc |-> "JSONDecodeError"]
         IN  IF l.t = "blank" \/ rec.st = "raised"
             THEN LineLogs(lines, i + 1, acc)
             ELSE LineLogs(lines, i + 1, Append(acc, rec))

\* load_logs(path): the list it returns and whether it printed its message
LoadLogs(f) ==
    IF ~f.exists THEN [logs |-> <<>>, reported |-> TRUE]
    ELSE IF StartsWithBracket(f.lines)
    THEN IF ContentIsJson(f.lines)
         THEN LET r == ArrayLogs(NonBlank(f.lines)[1].v.l, 1, <<>>)
              IN  [logs |-> r.logs, reported |-> r.raised]
         ELSE [logs |-> <<>>, reported |-> TRUE]
    ELSE [logs |-> LineLogs(f.lines, 1, <<>>), reported |-> FALSE]

\* records and other JSON values a producer writes
RecA == JMap(<<<<"url", JStr("/a")>>>>)
RecB == JMap(<<<<"body", JStr("b")>>>>)
RecHeadersNull == JMap(<<<<"headers", JNull>>>>)
FileVals == {RecA, RecB, RecHeadersNull, JNum(5)}

FileLines ==
    {BlankLine, BadLine("{oops"), BadLine("[oops"), JsonLine(JList(<<>>))}
    \cup {JsonLine(v) : v \in FileVals}

\* the producer writes one more line
AddLine(l) ==
    /\ mpc = "start"
    /\ file.exists
    /\ Len(file.lines) < MaxLines
    /\ file' = [file EXCEPT !.lines = Append(@, l)]
    /\ UNCHANGED <<logs, reported, mpc>>
    /\ UNCHANGED <<modelVars, offBatch>>

\* the producer puts one more element into the JSON array the file starts with
AddElem(v) ==
    /\ mpc = "start"
    /\ file.exists
    /\ Len(file.lines) = 1
    /\ file.lines[1].t = "json"
    /\ file.lines[1].v.t = "list"
    /\ Len(file.lines[1].v.l) < MaxElems
    /\ file' = [file EXCEPT !.lines[1] = JsonLine(JList(Append(@.v.l, v)))]
    /\ UNCHANGED <<logs, reported, mpc>>
    /\ UNCHANGED <<modelVars, offBatch>>

\* nothing is at the path
NoFile ==
    /\ mpc = "start"
    /\ file = [exists |-> TRUE, lines |-> <<>>]
    /\ file' = [exists |-> FALSE, lines |-> <<>>]
    /\ UNCHANGED <<logs, reported, mpc>>
    /\ UNCHANGED <<modelVars, offBatch>>

\* main, line 195: logs = load_logs(path)
MainLoadLogs ==
    /\ mpc = "start"
    /\ logs' = LoadLogs(file).logs
    /\ reported' = LoadLogs(file).reported
    /\ mpc' = "read"
    /\ UNCHANGED file
    /\ UNCHANGED <<modelVars, offBatch>>

\* main, lines 196-202: no data and return, or load_model() and go on
MainBranch ==
    /\ mpc = "read"
    /\ IF logs = <<>>
       THEN /\ mpc' = "nodata"
            /\ UNCHANGED modelVars
       ELSE /\ mpc' = "model"
            /\ bundle' = IF bundle = None THEN loads + 1 ELSE bundle
            /\ loads' = IF bundle = None THEN loads + 1 ELSE loads
            /\ UNCHANGED <<lpc, loaded, got, calls>>
    /\ UNCHANGED <<file, logs, reported>>
    /\ UNCHANGED offBatch

BatchNext ==
    \/ \E l \in FileLines : AddLine(l)
    \/ \E v \in FileVals : AddElem(v)
    \/ NoFile
    \/ MainLoadLogs
    \/ MainBranch

SpecBatch == Init /\ [][BatchNext]_vars

\* ------------------------------------------------- dashboard_api: stats
\* the default of read_jsonl's limit
ReadLimit == 5000

\* a file of many lines is kept as runs: [n |-> count, line |-> the line]
RECURSIVE SumRuns(_)
SumRuns(runs) == IF runs = <<>> THEN 0 ELSE Head(runs).n + SumRuns(Tail(runs))

\* lines 24-33: the rows of the file, blank lines and lines json.loads
\* raises on passed over; a run of lines gives a run of rows
RECURSIVE RowsOf(_)
RowsOf(runs) ==
    IF runs = <<>> THEN <<>>
    ELSE (IF Head(runs).line.t = "json"
          THEN <<[n |-> Head(runs).n, v |-> Head(runs).line.v]>> ELSE <<>>)
         \o RowsOf(Tail(runs))

\* the last k rows
RECURSIVE LastRows(_, _)
LastRows(rows, k) ==
    IF rows = <<>> \/ k <= 0 THEN <<>>
    ELSE LET r == rows[Len(rows)]
         IN  IF r.n >= k THEN <<[n |-> k, v |-> r.v]>>
             ELSE Append(LastRows(SubSeq(rows, 1, Len(rows) - 1), k - r.n), r)

\* read_jsonl(path, limit): rows[-limit:], which is every row when limit is 0
ReadJsonl(f, limit) ==
    IF ~f.exists THEN <<>>
    ELSE IF limit = 0 THEN RowsOf(f.runs)
    ELSE LastRows(RowsOf(f.runs), limit)

\* r.get("attack") or "Unknown"
AttackOf(v) == PyOr(<<DictGet(v.m, "attack"), JStr("Unknown")>>)

\* stats(): total and dict(Counter(...)); r.get raises on a row that is no
\* mapping
Stats(f) ==
    LET rows == ReadJsonl(f, ReadLimit)
        keys == {AttackOf(rows[i].v) : i \in {j \in 1..Len(rows) : rows[j].v.t = "map"}}
    IN  IF \E i \in 1..Len(rows) : rows[i].v.t # "map"
        THEN [st |-> "raised", exc |-> "AttributeError"]
        ELSE [st |-> "ok",
              total |-> SumRuns(rows),
              counts |-> [k \in keys |->
                  SumRuns(SelectSeq(rows, LAMBDA r : AttackOf(r.v) = k))]]

\* ord(ch) of a printable ASCII character
Ord(ch) ==
    IF \E i \in 1..Len(AsciiLow) : CharAt(AsciiLow, i) = ch
    THEN 31 + (CHOOSE i \in 1..Len(AsciiLow) : CharAt(AsciiLow, i) = ch)
    ELSE 96 + (CHOOSE i \in 1..Len(AsciiHigh) : CharAt(AsciiHigh, i) = ch)

\* a < b on str: the first differing character decides, a prefix is smaller
RECURSIVE StrLt(_, _, _)
StrLt(a, b, i) ==
    IF i > Len(a) THEN i <= Len(b)
    ELSE IF i > Len(b) THEN FALSE
    ELSE IF CharAt(a, i) = CharAt(b, i) THEN StrLt(a, b, i + 1)
    ELSE Ord(CharAt(a, i)) < Ord(CharAt(b, i))

\* the sort key r.get("time", ""): "" only when the key is absent
TimeKey(v) == IF DictHas(v.m, "time") THEN DictGet(v.m, "time") ELSE JStr("")

\* Python orders str with str and numbers with numbers; every other pair of
\* keys makes `<` raise TypeError
IsNumKey(k) == k.t \in {"num", "bool"}
NumOf(k) == IF k.t = "bool" THEN (IF k.b THEN 1 ELSE 0) ELSE k.n
Comparable(a, b) ==
    \/ a.t = "str" /\ b.t = "str"
    \/ IsNumKey(a) /\ IsNumKey(b)
KeyLt(a, b) == IF a.t = "str" THEN StrLt(a.s, b.s, 1) ELSE NumOf(a) < NumOf(b)

\* sorted(..., reverse=True) is stable: a row goes behind the rows sorted so
\* far whose key is not smaller than its own
RECURSIVE InsertDesc(_, _)
InsertDesc(sorted, r) ==
    IF sorted = <<>> THEN <<r>>
    ELSE IF KeyLt(TimeKey(Head(sorted).v), TimeKey(r.v)) THEN <<r>> \o sorted
    ELSE <<Head(sorted)>> \o InsertDesc(Tail(sorted), r)

RECURSIVE SortDesc(_, _)
SortDesc(rows, acc) ==
    IF rows = <<>> THEN acc ELSE SortDesc(Tail(rows), InsertDesc(acc, Head(rows)))

\* rows[:k] for k >= 0
RECURSIVE FirstRows(_, _)
FirstRows(rows, k) ==
    IF rows = <<>> \/ k <= 0 THEN <<>>
    ELSE IF Head(rows).n >= k THEN <<[n |-> k, v |-> Head(rows).v]>>
    ELSE <<Head(rows)>> \o FirstRows(Tail(rows), k - Head(rows).n)

\* lines 66-72: the record events() answers for a row
EventOf(v) ==
    [time |-> PyOr(<<DictGet(v.m, "time"), JStr("")>>),
     ip |-> PyOr(<<DictGet(v.m, "ip"), JStr("")>>),
     attack |-> PyOr(<<DictGet(v.m, "attack"), JStr("Unknown")>>),
     score |-> IF DictGet(v.m, "score") # JNull THEN DictGet(v.m, "score") ELSE JStr(""),
     url |-> PyOr(<<DictGet(v.m, "url"), JStr("")>>)]

\* events(limit): r.get raises on a row that is no mapping, the sort raises
\* when it has to compare two keys Python does not order
Events(f, limit) ==
    LET rows == ReadJsonl(f, ReadLimit)
        keys == {TimeKey(rows[i].v) : i \in 1..Len(rows)}
        top == FirstRows(SortDesc(rows, <<>>), limit)
    IN  IF \E i \in 1..Len(rows) : rows[i].v.t # "map"
        THEN [st |-> "raised", exc |-> "AttributeError", limit |-> limit]
        ELSE IF /\ SumRuns(rows) >= 2
                /\ \E a \in keys : \E b \in keys : ~Comparable(a, b)
        THEN [st |-> "raised", exc |-> "TypeError", limit |-> limit]
        ELSE [st |-> "ok", limit |-> limit,
              rows |-> [i \in 1..Len(top) |-> [n |-> top[i].n, v |-> EventOf(top[i].v)]]]

\* the default of events' limit
EventsLimit == 100

\* limits a client asks for
Limits == {0, 1, EventsLimit}

\* lines a result file holds
DashVals ==
    {JMap(<<<<"time", JStr("2026-11-01T10:00:00")>>, <<"attack", JStr("XSS")>>>>),
     JMap(<<<<"time", JStr("2026-11-02T09:30:00")>>, <<"attack", JStr("Benign")>>>>),
     JMap(<<<<"time", JStr("2026-11-03T08:00:00")>>, <<"attack", JNull>>>>),
     JMap(<<<<"url", JStr("/a")>>>>),
     JMap(<<<<"time", JNull>>>>),
     JNum(5)}

DashLines == {BlankLine, BadLine("{oops")} \cup {JsonLine(v) : v \in DashVals}

\* lengths of a run of equal lines: one line, or as many as read_jsonl keeps
RunLens == {1, ReadLimit}

\* the file grows by a run of n equal lines
AppendRun(n, l) ==
    /\ statsOut.st = "none"
    /\ eventsOut.st = "none"
    /\ appfile.exists
    /\ Len(appfile.runs) < MaxRuns
    /\ appfile' = [appfile EXCEPT !.runs = Append(@, [n |-> n, line |-> l])]
    /\ UNCHANGED <<statsOut, eventsOut>>
    /\ UNCHANGED offDash

\* no result file has been written
NoAppFile ==
    /\ statsOut.st = "none"
    /\ eventsOut.st = "none"
    /\ appfile = [exists |-> TRUE, runs |-> <<>>]
    /\ appfile' = [exists |-> FALSE, runs |-> <<>>]
    /\ UNCHANGED <<statsOut, eventsOut>>
    /\ UNCHANGED offDash

\* GET /api/stats
StatsQuery ==
    /\ statsOut.st = "none"
    /\ statsOut' = Stats(appfile)
    /\ UNCHANGED <<appfile, eventsOut>>
    /\ UNCHANGED offDash

\* GET /api/events?limit=k
EventsQuery(k) ==
    /\ eventsOut.st = "none"
    /\ eventsOut' = Events(appfile, k)
    /\ UNCHANGED <<appfile, statsOut>>
    /\ UNCHANGED offDash

DashNext ==
    \/ \E n \in RunLens, l \in DashLines : AppendRun(n, l)
    \/ NoAppFile
    \/ StatsQuery
    \/ \E k \in Limits : EventsQuery(k)

SpecDash == Init /\ [][DashNext]_vars

\* ================================================================ claims
Without(s, x) == SelectSeq(s, LAMBDA y : y # x)

Registered0 == {c \in Conns : pc[c] # "idle"}
Failing == {c \in Registered0 : link[c] = "down"}
Quiet == \A c \in Conns : pc[c] # "send"
HasAlert(s, c, n) == \E i \in 1..Len(inbox[s]) : inbox[s][i] = <<c, n>>

\* C1: used sequentially with N registered subscribers of which exactly one,
\* k, fails on send, the first publish leaves exactly the other N-1
\* registered and each of them has received the alert; a later publish makes
\* no attempt on k and removes nobody (checked under SpecSeq).
SeqHubProperty ==
    Cardinality(Failing) = 1 =>
        /\ \A c \in Conns : pc[c] # "crashed"
        /\ \A k \in Failing : inbox[k] = <<>>
        /\ (Quiet /\ TotalSent >= 1) =>
              /\ Range(clients) = Registered0 \ Failing
              /\ Len(clients) = Cardinality(Registered0) - 1
              /\ \A s \in Range(clients) : \A c \in Conns : \A n \in 1..sent[c] :
                    HasAlert(s, c, n)
        /\ TotalSent >= 2 =>
              \A c \in Conns : pc[c] = "send" =>
                  /\ tgt[c] \notin Failing
                  /\ dead[c] = <<>>
                  /\ \A k \in Failing : tried[c][k] = 0

\* C1 witness: two subscribers, one failing, and the second publish is over
SeqHubWitness ==
    /\ Cardinality(Failing) = 1
    /\ Cardinality(Registered0) = NConns
    /\ Quiet
    /\ TotalSent = 2
    /\ Len(clients) = NConns - 1

\* C2: a failed subscriber is removed exactly once: no publish ends in an
\* error because the subscriber it wants to remove is already off the list.
RemovedOnce == \A c \in Conns : err[c] # "ValueError"

\* a step in which the broadcast of connection c ends
Ends(c) == pc[c] = "send" /\ pc'[c] # "send"

\* C3: a subscriber registered from the start of a publish to its end gets
\* exactly one delivery attempt of that alert.
ExactlyOneAttempt ==
    [][\A c \in Conns : Ends(c) =>
          \A s \in stayed[c] : TriedAfter(c)[s] = 1]_vars

\* C4: send failures stay inside the publish: when a broadcast ends it has
\* returned normally, its handler is still registered and waits for its next
\* event, and every subscriber whose send did not fail has the alert.
FailuresIsolated ==
    [][\A c \in Conns : Ends(c) =>
          /\ pc'[c] = "recv"
          /\ c \in Range(clients')
          /\ \A s \in stayed[c] : (s \notin Range(DeadAfter(c))) =>
                \E i \in 1..Len(inbox'[s]) : inbox'[s][i] = <<c, sent[c]>>]_vars

\* C5: every publish eventually completes, whatever a subscriber's peer does
\* (checked under FairSpec).
PublishCompletes ==
    \A c \in Conns : (pc[c] = "send") ~> (pc[c] # "send")

\* C6: a connection's event i+1 is received only after the broadcast of its
\* event i has returned, and every subscriber holds the alerts of one
\* connection in the order the events were sent.
InOrder ==
    \A s \in Conns : \A i, j \in 1..Len(inbox[s]) :
        (i < j /\ inbox[s][i][1] = inbox[s][j][1]) => inbox[s][i][2] < inbox[s][j][2]

OneAtATime ==
    \A c \in Conns :
        /\ pc[c] = "send" => done[c] = sent[c] - 1
        /\ pc[c] \in {"idle", "recv", "closed"} => done[c] = sent[c]

EventsInOrder == InOrder /\ OneAtATime

\* C6 witness: a subscriber holds the alerts of two events of one connection
EventsInOrderWitness ==
    \E s, c \in Conns :
        /\ HasAlert(s, c, 1)
        /\ HasAlert(s, c, 2)
        /\ pc[c] = "recv"

\* C8: the disconnect path's removal is idempotent: it takes exactly the
\* disconnecting subscriber off the list, leaves the list alone when that
\* subscriber is already off it, and raises nothing.
UnsubscribeIdempotent ==
    [][\A c \in Conns :
          /\ (pc[c] = "recv" /\ pc'[c] = "closed") => clients' = Without(clients, c)
          /\ (pc[c] = "recv" /\ pc'[c] # "recv") => err'[c] # "ValueError"]_vars

\* C8 witness: a subscriber that a broadcast had already removed after a
\* failed send has gone through its disconnect path
UnsubscribeWitness ==
    \E c \in Conns : pc[c] = "closed" /\ c \in pruned

\* C9: the alert of an event goes to every registered subscriber except the
\* connection that sent the event.
ToAllButSender ==
    [][\A c \in Conns :
          /\ \A i \in 1..Len(inbox'[c]) : inbox'[c][i][1] # c
          /\ Ends(c) =>
                \A s \in stayed[c] \ {c} : (s \notin Range(DeadAfter(c))) =>
                    \E i \in 1..Len(inbox'[s]) : inbox'[s][i] = <<c, sent[c]>>]_vars

\* C7: the model artifact is loaded at most once per process, every caller of
\* load_model gets the same bundle and none gets a handle that is not a fully
\* loaded object (checked under SpecModel).
LoadedOnce ==
    /\ loads <= 1
    /\ \A t \in Callers : calls[t] >= 1 => got[t] \in 1..loads
    /\ \A t, u \in Callers : (calls[t] >= 1 /\ calls[u] >= 1) => got[t] = got[u]

\* C10: parse_log_item is total: whatever JSON values the fields of the event
\* hold, it returns a record whose five fields time, ip, method, url, body
\* are strings (checked under SpecParse).
NormalizeTotal ==
    parsed.st # "none" =>
        /\ parsed.st = "ok"
        /\ parsed.time.t = "str"
        /\ parsed.ip.t = "str"
        /\ parsed.method.t = "str"
        /\ parsed.url.t = "str"
        /\ parsed.body.t = "str"

\* the event has some key of the sequence keys
AnyPresent(it, keys) == \E i \in 1..Len(keys) : DictHas(it, keys[i])

\* value of the first key of the sequence keys that the event has, else dflt
RECURSIVE FirstPresent(_, _, _)
FirstPresent(it, keys, dflt) ==
    IF keys = <<>> THEN dflt
    ELSE IF DictHas(it, Head(keys)) THEN DictGet(it, Head(keys))
    ELSE FirstPresent(it, Tail(keys), dflt)

IpKeys == <<"ip", "remote_ip", "client_ip", "source_ip", "host", "ip_address", "src_ip">>

\* the ip the ordered fallback names for an event
FallbackIp(it) ==
    LET hdr == DictGet(it, "headers")
        hm == IF hdr.t = "map" THEN hdr.m ELSE <<>>
        found == SearchIPv4(JsonDumps(JMap(it)), 1)
    IN  IF AnyPresent(it, IpKeys) THEN FirstPresent(it, IpKeys, JStr(""))
        ELSE IF AnyPresent(hm, <<"x-forwarded-for", "x-real-ip">>)
             THEN FirstPresent(hm, <<"x-forwarded-for", "x-real-ip">>, JStr(""))
        ELSE IF found # "" THEN JStr(found)
        ELSE JStr("0.0.0.0")

\* C11: the normalised ip is the value of the first present field of (ip,
\* remote_ip, client_ip, source_ip, host, ip_address, src_ip); if none is
\* present, headers' x-forwarded-for and then x-real-ip; if still absent, the
\* first IPv4-shaped substring of the serialised event; otherwise "0.0.0.0"
\* (checked under SpecParse).
IpFallbackOrder ==
    parsed.st # "none" =>
        /\ parsed.st = "ok"
        /\ parsed.ip = PyStr(FallbackIp(item))

\* the time the claim names for an event: a number is epoch seconds turned
\* into ISO-8601 text, its own string form when the conversion fails
ResolvedTime(it) ==
    LET v == FirstPresent(it, <<"time", "timestamp", "ts">>, JStr(NowIso))
    IN  IF v.t = "num" THEN JStr(UtcIso(v.n)) ELSE PyStr(v)

\* C12: the normalised time is taken from the first present of (time,
\* timestamp, ts), else the current UTC instant; a numeric value, 0 included,
\* is converted from epoch seconds to ISO-8601 text, and to its own string
\* form if the conversion fails (checked under SpecParse; a JSON boolean,
\* which Python also counts as a number, is left out of the statement).
TimeResolution ==
    (parsed.st = "ok" /\
     FirstPresent(item, <<"time", "timestamp", "ts">>, JStr(NowIso)).t # "bool") =>
        parsed.time = ResolvedTime(item)

\* C13: method is the value of `method` if that key is present, else of
\* `http_method`, else "GET"; url is `url`, else `path`, else ""; body is
\* `body`, else `data`, else ""; each coerced to a string; a later candidate
\* or the default is used only when every earlier key is absent (checked
\* under SpecParse).
FirstPresentWins ==
    parsed.st = "ok" =>
        /\ parsed.method = PyStr(FirstPresent(item, <<"method", "http_method">>, JStr("GET")))
        /\ parsed.url = PyStr(FirstPresent(item, <<"url", "path">>, JStr("")))
        /\ parsed.body = PyStr(FirstPresent(item, <<"body", "data">>, JStr("")))

\* C14: normalize_for_tfidf is idempotent, decode(decode(x)) = decode(x), also
\* for texts percent-encoded more than three levels deep and texts whose HTML
\* entities decode to new percent-escapes; the percent-decoding loop runs at
\* most 3 rounds (checked under SpecText).
DecodeIdempotent ==
    norm.st = "done" =>
        /\ norm.twice = norm.once
        /\ norm.ran <= 3

\* the base score and the bonuses as the scoring rules list them
RuleBase ==
    [c \in {"Benign", "SQL Injection", "XSS", "Command Injection",
            "Broken Authentication"} |->
        CASE c = "Benign" -> 0
          [] c = "SQL Injection" -> 85
          [] c = "XSS" -> 50
          [] c = "Command Injection" -> 95
          [] c = "Broken Authentication" -> 70]

Triggers ==
    {"entropy", "base64_chunk_count", "shell_pattern_count", "path_traversal_count",
     "xss_event_count", "cmd_special_count", "sql_comment_count"}

Fires(m, f) == IF f = "entropy" THEN m[f] > 4000 ELSE m[f] > 0

RuleBonus ==
    [f \in Triggers |->
        IF f \in {"entropy", "shell_pattern_count", "path_traversal_count"} THEN 10 ELSE 5]

RECURSIVE SumBonus(_, _)
SumBonus(m, fs) ==
    IF fs = {} THEN 0
    ELSE LET f == CHOOSE g \in fs : TRUE
         IN  (IF Fires(m, f) THEN RuleBonus[f] ELSE 0) + SumBonus(m, fs \ {f})

\* C15: for every category and feature vector the severity score is
\* min(100, base(category) + the bonuses whose trigger holds), each bonus
\* applied once; it is an integer of 0..100; SQL Injection with no trigger
\* firing scores 85 and its tier is HIGH (checked under SpecSeverity).
ScoreByRules ==
    (severity # NoScore /\ label \in DOMAIN RuleBase) =>
        /\ severity = Min(100, RuleBase[label] + SumBonus(meta, Triggers))
        /\ severity \in 0..100
        /\ (label = "SQL Injection" /\ \A f \in Triggers : ~Fires(meta, f)) =>
              /\ severity = 85
              /\ level \in {"none", "HIGH"}

\* C15 witness: an event whose bonuses take the sum over 100 has been scored,
\* with a pattern count above one, and given its tier
ScoreByRulesWitness ==
    /\ label = "Command Injection"
    /\ meta.shell_pattern_count > 1
    /\ meta.entropy > 4000
    /\ severity = 100
    /\ level = "CRITICAL"

\* the features with trigger f switched to firing
Fired(m, f) == [m EXCEPT ![f] = IF f = "entropy" THEN 4001 ELSE 1]

\* C16: for a fixed category, switching one trigger from not firing to firing
\* while the other six stay the same never lowers the score; the score never
\* exceeds 100; Benign with all-zero features scores 0 (checked under
\* SpecSeverity).
ScoreMonotonic ==
    severity # NoScore =>
        /\ \A f \in Triggers :
              ~Fires(meta, f) => ComputeSeverity(Fired(meta, f), label) >= severity
        /\ severity <= 100
        /\ (label = "Benign" /\ meta = ZeroMeta) => severity = 0

\* C16 witness: a scored event that is one trigger short of the cap
ScoreMonotonicWitness ==
    /\ severity = 95
    /\ label = "SQL Injection"
    /\ \E f \in Triggers : ~Fires(meta, f) /\ RuleBonus[f] = 10

\* C17: the tier of every integer score of 0..100 is CRITICAL iff score >= 90,
\* HIGH iff 70 <= score <= 89, MEDIUM iff 40 <= score <= 69, LOW iff
\* 10 <= score <= 39, SAFE iff score <= 9 (checked under SpecLevel).
TierByScore ==
    level # "none" =>
        /\ level \in {"CRITICAL", "HIGH", "MEDIUM", "LOW", "SAFE"}
        /\ level = "CRITICAL" <=> severity >= 90
        /\ level = "HIGH" <=> (70 <= severity /\ severity <= 89)
        /\ level = "MEDIUM" <=> (40 <= severity /\ severity <= 69)
        /\ level = "LOW" <=> (10 <= severity /\ severity <= 39)
        /\ level = "SAFE" <=> severity <= 9

\* C17 witness: the score on a boundary, 70, has been given its tier
TierByScoreWitness == severity = 70 /\ level = "HIGH"

\* a record is well formed when it is a JSON object that normalises
WellFormed(v) == v.t = "map" /\ ParseLogItem(v.m).st = "ok"

\* the values a file holds, in file order: the elements of its JSON array
\* when it is one array, else the values of its lines (a line that is no
\* JSON holds none)
RECURSIVE LineVals(_)
LineVals(lines) ==
    IF lines = <<>> THEN <<>>
    ELSE (IF Head(lines).t = "json" THEN <<Head(lines).v>> ELSE <<>>)
         \o LineVals(Tail(lines))

FileRecords(f) ==
    IF ContentIsJson(f.lines) /\ NonBlank(f.lines)[1].v.t = "list"
    THEN NonBlank(f.lines)[1].v.l
    ELSE LineVals(f.lines)

RECURSIVE NormalizeAll(_)
NormalizeAll(vs) ==
    IF vs = <<>> THEN <<>>
    ELSE (IF WellFormed(Head(vs)) THEN <<ParseLogItem(Head(vs).m)>> ELSE <<>>)
         \o NormalizeAll(Tail(vs))

\* C18: load_logs skips malformed records and keeps everything else in
\* order: for a line-delimited file and for a single JSON array alike it
\* returns exactly the normalisation of every well-formed record, in file
\* order, wherever the malformed line or record sits (checked under
\* SpecBatch).
IngestSkipsMalformed ==
    (mpc # "start" /\ file.exists) => logs = NormalizeAll(FileRecords(file))

\* a failure at the file level: no file, content that starts a JSON array
\* and does not parse, or an array with an element normalisation raises on
FileFailure(f) ==
    \/ ~f.exists
    \/ /\ StartsWithBracket(f.lines)
       /\ \/ ~ContentIsJson(f.lines)
          \/ \E i \in 1..Len(FileRecords(f)) : ~WellFormed(FileRecords(f)[i])

\* C19: whenever load_logs hits a failure at the file level it reports the
\* failure and returns the empty sequence, never partial data, so main takes
\* its no-data path and the model is not loaded (checked under SpecBatch).
FileFailureYieldsNothing ==
    (mpc # "start" /\ FileFailure(file)) =>
        /\ reported
        /\ logs = <<>>
        /\ mpc # "model"
        /\ bundle = None

\* the records of the file and the category of a record
RecordRuns(f) == SelectSeq(RowsOf(f.runs), LAMBDA r : r.v.t = "map")
CategoryOf(v) ==
    IF DictHas(v.m, "attack") /\ DictGet(v.m, "attack").t = "str"
    THEN DictGet(v.m, "attack") ELSE JStr("Unknown")
CountOf(f, c) == SumRuns(SelectSeq(RecordRuns(f), LAMBDA r : CategoryOf(r.v) = c))

RECURSIVE SumCounts(_, _)
SumCounts(cn, ks) ==
    IF ks = {} THEN 0
    ELSE LET k == CHOOSE x \in ks : TRUE IN cn[k] + SumCounts(cn, ks \ {k})

\* C20: for a file holding any number R of parseable records, stats returns
\* total = R, for each category the number of records of that category
\* (records without one under "Unknown"), and the counts sum to total
\* (checked under SpecDash, for files whose JSON lines are all records).
StatsCountsAll ==
    (statsOut.st # "none" /\ RecordRuns(appfile) = RowsOf(appfile.runs)) =>
        /\ statsOut.st = "ok"
        /\ statsOut.total = SumRuns(RecordRuns(appfile))
        /\ \A i \in 1..Len(RecordRuns(appfile)) :
              LET c == CategoryOf(RecordRuns(appfile)[i].v)
              IN  c \in DOMAIN statsOut.counts /\ statsOut.counts[c] = CountOf(appfile, c)
        /\ SumCounts(statsOut.counts, DOMAIN statsOut.counts) = statsOut.total

\* the time an answered event shows and the time of a record of the file
ShownTime(e) == e.time
RecordTime(v) == PyOr(<<DictGet(v.m, "time"), JStr("")>>)
Later(a, b) == StrLt(b.s, a.s, 1)

\* records of the file with time t, and answered events with time t
InFile(f, t) == SumRuns(SelectSeq(RecordRuns(f), LAMBDA r : RecordTime(r.v) = t))
InAnswer(rows, t) == SumRuns(SelectSeq(rows, LAMBDA r : ShownTime(r.v) = t))

\* every JSON line of the file is a record whose time is text or absent
TimedRecords(f) ==
    /\ RecordRuns(f) = RowsOf(f.runs)
    /\ \A i \in 1..Len(RecordRuns(f)) : TimeKey(RecordRuns(f)[i].v).t = "str"

\* C21: events returns the most recent N records of the file sorted by time
\* descending: min(N, R) records, non-increasing in time, and no record left
\* out is later than a record in the answer, wherever in the file the most
\* recent records are (checked under SpecDash, for files whose JSON lines are
\* all records with a text time or none).
EventsMostRecent ==
    (eventsOut.st # "none" /\ TimedRecords(appfile)) =>
        /\ eventsOut.st = "ok"
        /\ SumRuns(eventsOut.rows) = Min(eventsOut.limit, SumRuns(RecordRuns(appfile)))
        /\ \A i, j \in 1..Len(eventsOut.rows) :
              i < j => ~Later(ShownTime(eventsOut.rows[j].v), ShownTime(eventsOut.rows[i].v))
        /\ \A i \in 1..Len(RecordRuns(appfile)) :
              LET t == RecordTime(RecordRuns(appfile)[i].v)
              IN  InFile(appfile, t) > InAnswer(eventsOut.rows, t) =>
                      \A j \in 1..Len(eventsOut.rows) :
                          ~Later(t, ShownTime(eventsOut.rows[j].v))

\* C22: a connection is in the subscriber list only while its handler is
\* running: once the handler has ended, by a disconnect or by an exception
\* out of its event loop, the connection is no longer registered.
RegisteredWhileRunning ==
    \A c \in Range(clients) : pc[c] \in {"recv", "send"}

====
